---- MODULE Spec2Model ----
(***************************************************************************)
(* Scrape-job orchestration of scrapexi: the API process (src/api/index.py)*)
(* with its background task run_scrape_task, the cancellation and status   *)
(* surfaces, the usage ledger calls, and the dedicated browser service     *)
(* (src/scraper_service/main.py) the task delegates to when                *)
(* BROWSER_SERVICE_URL is set.  One job is followed from submission to the *)
(* end of its background task.                                             *)
(***************************************************************************)
EXTENDS Integers, Sequences, FiniteSets, TLC

\* ------------------------------------------------------------------ bounds
MaxPagesBound == 3      \* largest max_pages a modelled request asks for
LimitBound == 1         \* items_limit of the owner's profile
OneTimeBound == 1       \* largest one_time_credits of the owner's profile
MaxText == 4            \* longest response text handed to the truncation repair
MaxCookies == 2         \* most cookies of a session payload
MaxDeduct == 2          \* largest item_count of a direct check_and_deduct call
MaxCount == 2           \* longest list inside an aggregate whose items are counted
MaxCandidates == 21     \* most clickable elements found on a page
MaxAnswer == 3          \* longest selector answer of the model, in tokens
MaxSegs == 3            \* most path segments of a current URL
MaxParams == 2          \* most query parameters of a current URL

\* ------------------------------------------------------- program constants
PRESENTED == 20         \* elements shown to the model (main.py 161)
MAX_PAGES == 10         \* scrape_endpoint's page ceiling

\* ------------------------------------------------------------- option type
None == <<>>
Some(x) == <<x>>

\* ------------------------------------------------- extraction payloads
\* A JSON object is the sequence of its entries in insertion order (a Python
\* dict); an entry's value is a list (list = TRUE) or a scalar (list = FALSE,
\* v a one-element sequence holding it).
Entry(k, isList, v) == [k |-> k, list |-> isList, v |-> v]
ItemsPayload(xs) == << Entry("items", TRUE, xs) >>
ScalarPayload(x) == << Entry("items", FALSE, <<x>>) >>
ErrorPayload == << Entry("error", FALSE, <<0>>) >>

\* What the completion service may answer for page p.
PagePayloads(p) == { ItemsPayload(<<p>>), ScalarPayload(p), ErrorPayload }

\* query_data_with_gemini (local_agentql_service.py 84-143).  A missing API
\* key (88-90) and an unreadable page (92-93) raise before the try block is
\* entered; every failure inside it (the completion call, the JSON parse)
\* is returned as an error payload, which `answer` ranges over.
QueryDataWithGemini(hasKey, contentOk, answer) ==
    IF ~hasKey THEN [raised |-> TRUE, text |-> "GOOGLE_API_KEY is not set", data |-> <<>>]
    ELSE IF ~contentOk THEN [raised |-> TRUE, text |-> "page.content", data |-> <<>>]
    ELSE [raised |-> FALSE, text |-> "", data |-> answer]

\* extract_with_gemini (scraper_service/main.py 197-232): no key is an
\* error payload, and so is every exception of the call or the parse.
ExtractWithGemini(hasKey, answer) ==
    IF ~hasKey THEN ErrorPayload ELSE answer

HasKey(d, k) == \E n \in 1..Len(d) : d[n].k = k
IndexOf(d, k) == CHOOSE n \in 1..Len(d) : d[n].k = k
Get(d, k) == d[IndexOf(d, k)]

\* One iteration of `for key, value in page_data.items()` (index.py 501-505).
\* st = [raised, d]: extend() on a value that is no list raises.
MergeEntry(st, e) ==
    IF st.raised THEN st
    ELSE IF e.list /\ HasKey(st.d, e.k)
         THEN IF Get(st.d, e.k).list
              THEN [st EXCEPT !.d[IndexOf(st.d, e.k)].v = @ \o e.v]
              ELSE [st EXCEPT !.raised = TRUE]
         ELSE IF ~HasKey(st.d, e.k)
              THEN [st EXCEPT !.d = Append(@, e)]
              ELSE st

RECURSIVE MergeEntries(_, _)
MergeEntries(st, es) ==
    IF es = <<>> THEN st ELSE MergeEntries(MergeEntry(st, Head(es)), Tail(es))

\* index.py 498-505: the aggregate after one more page.
MergePage(agg, page) ==
    IF agg = <<>> THEN [raised |-> FALSE, d |-> page]
    ELSE MergeEntries([raised |-> FALSE, d |-> agg], page)

RECURSIVE FirstListLen(_)
FirstListLen(d) ==
    IF d = <<>> THEN 0
    ELSE IF Head(d).list THEN Len(Head(d).v) ELSE FirstListLen(Tail(d))

\* An aggregate that is itself a list stands as one entry under a key no
\* dict has.
ListKey == "[]"
ListAggregate(xs) == << Entry(ListKey, TRUE, xs) >>
IsListAggregate(d) == Len(d) = 1 /\ d[1].k = ListKey

\* index.py 547-557: the local path's item count: 0 for a falsy result, the
\* length of a list, the length of the first list among a dict's values.
CountItemsLocal(result) ==
    IF result = None \/ result = Some(<<>>) THEN 0
    ELSE IF IsListAggregate(result[1]) THEN Len(result[1][1].v)
    ELSE FirstListLen(result[1])

\* ------------------------------------------------------------- the ledger
Profile(limit, used, onetime) ==
    [items_limit |-> limit, items_used |-> used, one_time_credits |-> onetime]

Max(a, b) == IF a >= b THEN a ELSE b
Min(a, b) == IF a <= b THEN a ELSE b

SubscriptionAvailable(p) == Max(0, p.items_limit - p.items_used)
TotalAvailable(p) == SubscriptionAvailable(p) + p.one_time_credits

\* check_data_usage: TRUE when it raises "Credit limit reached".  A failed
\* profile read is printed and swallowed (its text names no credit limit).
CheckDataUsageRaises(hasUser, readOk, p) ==
    hasUser /\ readOk /\ TotalAvailable(p) <= 0

\* RPC increment_items_usage, called by update_data_usage.
IncrementItemsUsage(p, n) == [p EXCEPT !.items_used = @ + n]

\* update_data_usage: no user, or a failed RPC, leaves the profile alone.
UpdateDataUsage(hasUser, rpcOk, p, n) ==
    IF hasUser /\ rpcOk THEN IncrementItemsUsage(p, n) ELSE p


\* ----------------------------------------------------------------- state
VARIABLES
    env,          \* the API process's environment: is BROWSER_SERVICE_URL set
    request,      \* the ScrapeRequest of the job
    jobs,         \* the job's row of the persistent store (table "jobs")
    active_jobs,  \* the job's entry of the in-memory cache active_jobs
    profiles,     \* the owner's row of table "profiles"
    pc,           \* position of scrape_endpoint / run_scrape_task
    task,         \* locals of run_scrape_task
    svc,          \* the browser service's scrape() call for the job
    cancel,       \* position of the cancel_job call in progress, if any
    poll,         \* the last response of the status surface
    hist,         \* what has happened to the job (observation only)
    callers,      \* direct check_and_deduct_credits calls (SpecLedger)
    pure          \* input and results of a pure operation applied on its own

vars == << env, request, jobs, active_jobs, profiles, pc, task, svc, cancel,
           poll, hist, callers, pure >>

\* ScrapeRequest fields that steer the orchestration.  max_pages keeps its
\* default 3 when pagination is off; example URLs come with pagination only.
\* Fields the job's path never reads keep one value: the delegated path
\* ignores use_local_backend, the local path ignores the example URLs and
\* whether a query was given.
PageCounts == (1..MaxPagesBound) \cup {MAX_PAGES + 1}
Requests(remote) ==
    { r \in [ pagination_enabled : BOOLEAN, max_pages : PageCounts,
              examples : BOOLEAN, user_id : BOOLEAN,
              use_local_backend : BOOLEAN, query : BOOLEAN ] :
        /\ ~r.pagination_enabled => (r.max_pages = 3 /\ ~r.examples)
        /\ ~r.use_local_backend => ~r.pagination_enabled
        /\ remote => r.use_local_backend
        /\ ~remote => (~r.examples /\ r.query) }

NoRequest ==
    [ pagination_enabled |-> FALSE, max_pages |-> 3, examples |-> FALSE,
      user_id |-> FALSE, use_local_backend |-> TRUE, query |-> TRUE ]

NoRow ==
    [ exists |-> FALSE, status |-> "absent", data |-> None,
      pages_scraped |-> None, error |-> None, item_count |-> None ]
NoEntry ==
    [ present |-> FALSE, status |-> "absent", data |-> None, pages_scraped |-> 0 ]
TaskInit ==
    [ i |-> 0, aggregated_results |-> <<>>, pages_scraped |-> 0,
      result_data |-> None, item_count |-> 0, browser |-> FALSE, error |-> "",
      yielded |-> <<>>, exhausted |-> None ]
SvcInit ==
    [ pc |-> "off", i |-> 0, all_content |-> <<>>, current_page_num |-> 1,
      next_url |-> FALSE, browser |-> FALSE, log |-> <<>>, exhausted |-> None,
      extracted |-> None, fault |-> FALSE, nav_error |-> FALSE,
      resp |-> [kind |-> "none", data |-> None] ]
HistInit ==
    [ submit |-> "none", outcome |-> "none", wrote |-> {}, deducted |-> 0,
      deductCalls |-> 0, cancelDbOk |-> FALSE, obsPages |-> None,
      obsAt |-> "none", flagAt |-> None, ceiling |-> FALSE,
      precheck |-> "not_run", early |-> "unwatched" ]

Profiles ==
    { Profile(LimitBound, u, o) : u \in 0..LimitBound, o \in 0..OneTimeBound }

Terminal(s) == s \in {"completed", "failed", "cancelled"}

\* Pages whose work has been done for the job: extracted by the local loop,
\* or collected by the browser service.
PagesWorked == task.pages_scraped + Len(svc.all_content)

\* No cancel_job call is in progress.  While one is, `between` holds the
\* number of finished pages if its store update went through between two
\* pages (observation only).
NoCancel == [pc |-> "idle", between |-> None]

NoResponse ==
    [ code |-> 0, status |-> "none", data |-> None, pages_scraped |-> None,
      error |-> None ]

\* No status request has been answered yet.  `read` is what the store's
\* select gave the last request: a row, no row, or an error.
NoPoll == [resp |-> NoResponse, read |-> "none"]

JobIdle ==
    /\ request = NoRequest /\ jobs = NoRow /\ active_jobs = NoEntry
    /\ pc = "idle" /\ task = TaskInit /\ svc = SvcInit
    /\ cancel = NoCancel
    /\ poll = NoPoll
    /\ hist = HistInit

Init ==
    /\ env \in [browser_service_url : BOOLEAN]
    /\ profiles \in Profiles
    /\ JobIdle
    /\ callers = <<>>
    /\ pure = <<>>

\* ------------------------------------------------- submission surface
SchedulesWithoutRecord(r, usageRaises, insertOk) ==
    IF r.pagination_enabled /\ r.max_pages > MAX_PAGES THEN "400"
    ELSE IF usageRaises THEN "402"
    ELSE "queued"

AdmitsAnyPageCount(r, usageRaises, insertOk) ==
    IF usageRaises THEN "402"
    ELSE IF ~insertOk THEN "500"
    ELSE "queued"

AdmitsWithoutUnits(r, usageRaises, insertOk) ==
    IF r.pagination_enabled /\ r.max_pages > MAX_PAGES THEN "400"
    ELSE IF ~insertOk THEN "500"
    ELSE "queued"

\* scrape_endpoint (index.py 601-662): what the caller gets.  The page
\* ceiling is tested first (605-609), then the usage pre-check (612-617),
\* then the row is inserted (622-658); only then is the task scheduled (660)
\* and the job id returned (662).
SubmitOutcome(r, usageRaises, insertOk) ==
    IF r.pagination_enabled /\ r.max_pages > MAX_PAGES THEN "400"
    ELSE IF usageRaises THEN "402"
    ELSE IF ~insertOk THEN "500"
    ELSE "queued"

\* Observation: what the pre-check of the submission came to.
PreCheck(r, readOk, p) ==
    IF r.pagination_enabled /\ r.max_pages > MAX_PAGES THEN "not_run"
    ELSE IF ~r.user_id THEN "skipped"
    ELSE IF ~readOk THEN "unread"
    ELSE IF TotalAvailable(p) <= 0 THEN "none"
    ELSE "units"

Submit ==
    /\ pc = "idle"
    /\ \E r \in Requests(env.browser_service_url), readOk \in BOOLEAN, insertOk \in BOOLEAN :
        LET o == SubmitOutcome(r, CheckDataUsageRaises(r.user_id, readOk, profiles), insertOk)
        IN /\ request' = r
           /\ pc' = IF o = "queued" THEN "queued" ELSE "rejected"
           /\ hist' = [hist EXCEPT !.submit = o, !.precheck = PreCheck(r, readOk, profiles)]
           /\ jobs' = IF o \in {"500", "queued"} /\ insertOk
                      THEN [NoRow EXCEPT !.exists = TRUE, !.status = "running"]
                      ELSE jobs
    /\ UNCHANGED << env, active_jobs, profiles, task, svc, cancel, poll, callers, pure >>

\* ------------------------------------------------ cancellation surface
\* The job stands between two pages: a page's work is done and the next
\* page's work has not begun.
BetweenPages ==
    \/ pc \in {"loop_nav", "loop_check"} /\ task.pages_scraped >= 1
    \/ pc = "remote_wait" /\ svc.pc \in {"s1", "s2", "s3"}
    \/ pc = "remote_wait" /\ svc.pc = "collect" /\ svc.all_content # <<>>

\* cancel_job (index.py 699-713), first half: the store update.
CancelDb ==
    /\ cancel.pc = "idle"
    /\ pc \notin {"idle", "rejected", "direct"}
    /\ \E ok \in BOOLEAN :
        /\ jobs' = IF ok /\ jobs.exists THEN [jobs EXCEPT !.status = "cancelled"] ELSE jobs
        /\ hist' = [hist EXCEPT !.cancelDbOk = @ \/ (ok /\ jobs.exists)]
        /\ cancel' = [pc |-> "mem",
                      between |-> IF ok /\ BetweenPages THEN Some(PagesWorked) ELSE None]
    /\ UNCHANGED << env, request, active_jobs, profiles, pc, task, svc, poll, callers, pure >>

\* Observation: the number of finished pages when a cancel request first
\* set the flag, in the store and then in the cache, between the same two
\* pages.
Flagged(h) ==
    IF active_jobs.present /\ active_jobs.status = "running" /\ h.flagAt = None
       /\ BetweenPages /\ cancel.between = Some(PagesWorked)
    THEN [h EXCEPT !.flagAt = Some(PagesWorked)]
    ELSE h

\* Observation, kept where it is watched for (SpecEarly): a cancel_job call
\* has returned before the task began, leaving the row cancelled.
CancelledEarly(h) ==
    IF h.early = "no" /\ pc = "queued" /\ jobs.exists /\ jobs.status = "cancelled"
    THEN [h EXCEPT !.early = "yes"]
    ELSE h

\* cancel_job, second half: the cache update.
CancelMem ==
    /\ cancel.pc = "mem"
    /\ active_jobs' = IF active_jobs.present
                      THEN [active_jobs EXCEPT !.status = "cancelled"]
                      ELSE active_jobs
    /\ hist' = CancelledEarly(Flagged(hist))
    /\ cancel' = NoCancel
    /\ UNCHANGED << env, request, jobs, profiles, pc, task, svc, poll, callers, pure >>

\* ------------------------------------------------------ status surface
PrefersCache(row, entry, readOk) ==
    IF entry.present
    THEN [ code |-> 200, status |-> entry.status, data |-> entry.data,
           pages_scraped |-> Some(entry.pages_scraped), error |-> None ]
    ELSE IF readOk /\ row.exists
    THEN [ code |-> 200, status |-> row.status, data |-> row.data,
           pages_scraped |-> row.pages_scraped, error |-> row.error ]
    ELSE [ code |-> 404, status |-> "none", data |-> None,
           pages_scraped |-> None, error |-> None ]

\* get_job_status (index.py 665-696): the row if the select gave one, else
\* (no row, or the select raised) the cache entry, else 404.
StatusResponse(row, entry, readOk) ==
    IF readOk /\ row.exists
    THEN [ code |-> 200, status |-> row.status, data |-> row.data,
           pages_scraped |-> row.pages_scraped, error |-> row.error ]
    ELSE IF entry.present
    THEN [ code |-> 200, status |-> entry.status, data |-> entry.data,
           pages_scraped |-> Some(entry.pages_scraped), error |-> None ]
    ELSE [ code |-> 404, status |-> "none", data |-> None,
           pages_scraped |-> None, error |-> None ]

StoreRead(row, readOk) ==
    IF ~readOk THEN "error" ELSE IF row.exists THEN "row" ELSE "no_row"

GetJobStatus ==
    /\ \E readOk \in BOOLEAN :
        poll' = [ resp |-> StatusResponse(jobs, active_jobs, readOk),
                  read |-> StoreRead(jobs, readOk) ]
    /\ UNCHANGED << env, request, jobs, active_jobs, profiles, pc, task, svc, cancel, hist, callers, pure >>


\* ------------------------------------------------ run_scrape_task, start
\* index.py 236-270: the session is normalised outside every try block (a
\* cookie entry that is no mapping, or a sameSite that is no string, raises
\* there and ends the task with no handler run); then the cache entry is
\* (re)created as running and the task takes the delegated or the local path.
TaskStart ==
    /\ pc = "queued"
    /\ \E sessionOk \in BOOLEAN :
        IF ~sessionOk
        THEN /\ pc' = "done"
             /\ task' = [task EXCEPT !.error = "session"]
             /\ hist' = [hist EXCEPT !.outcome = "crashed"]
             /\ UNCHANGED << active_jobs, svc >>
        ELSE /\ active_jobs' = [ present |-> TRUE, status |-> "running",
                                 data |-> None, pages_scraped |-> 0 ]
             /\ IF env.browser_service_url
                THEN /\ pc' = "remote_wait"
                     /\ svc' = [svc EXCEPT !.pc = "start"]
                ELSE /\ pc' = "local_setup"
                     /\ svc' = svc
             /\ UNCHANGED << task, hist >>
    /\ UNCHANGED << env, request, jobs, profiles, cancel, poll, callers, pure >>

\* ------------------------------------------------ run_scrape_task, local
\* index.py 382-484: the in-task usage check, browser launch, context, login
\* and the first navigation.  Any of them may raise into the handler.
NextAfterSetup(r) ==
    IF r.pagination_enabled /\ r.use_local_backend THEN "loop_check"
    ELSE IF r.use_local_backend THEN "single_check"
    ELSE "finish"

LocalSetup ==
    /\ pc = "local_setup"
    /\ \E readOk \in BOOLEAN, browserOk \in BOOLEAN, navOk \in BOOLEAN :
        IF CheckDataUsageRaises(request.user_id, readOk, profiles)
        THEN /\ pc' = "except"
             /\ task' = [task EXCEPT !.error = "Credit limit reached"]
        ELSE IF ~browserOk
        THEN /\ pc' = "except"
             /\ task' = [task EXCEPT !.browser = TRUE, !.error = "browser"]
        ELSE IF ~navOk
        THEN /\ pc' = "except"
             /\ task' = [task EXCEPT !.browser = TRUE, !.error = "goto"]
        ELSE /\ pc' = NextAfterSetup(request)
             /\ task' = [task EXCEPT !.browser = TRUE]
    /\ UNCHANGED << env, request, jobs, active_jobs, profiles, svc, cancel, poll, hist, callers, pure >>

\* index.py 491: the checkpoint reads the cache entry only.
CancelObserved(entry) == entry.status = "cancelled"

LeftOpenOnCancel(t) == t

\* index.py 492, 537, 544: browser.close() before the task returns.
ClosedOnCancel(t) == [t EXCEPT !.browser = FALSE]

\* The task has seen the flag at checkpoint `at`, after `t.pages_scraped` pages.
Observed(h, t, at) ==
    [h EXCEPT !.outcome = "cancelled", !.obsPages = Some(t.pages_scraped),
              !.obsAt = at]

\* index.py 489-493 (and the loop's end, 532): the top of an iteration.
LoopCheck ==
    /\ pc = "loop_check"
    /\ IF task.i >= request.max_pages
       THEN /\ pc' = "finish"
            /\ task' = [task EXCEPT !.result_data = Some(task.aggregated_results)]
            /\ hist' = hist
       ELSE IF CancelObserved(active_jobs)
       THEN /\ pc' = "done"
            /\ task' = ClosedOnCancel(task)
            /\ hist' = Observed(hist, task, "loop")
       ELSE /\ pc' = "loop_extract"
            /\ UNCHANGED << task, hist >>
    /\ UNCHANGED << env, request, jobs, active_jobs, profiles, svc, cancel, poll, callers, pure >>

\* index.py 495-507: extract the page and merge it into the aggregate.
LoopExtract ==
    /\ pc = "loop_extract"
    /\ \E hasKey \in BOOLEAN, contentOk \in BOOLEAN, answer \in PagePayloads(task.i + 1) :
        LET q == QueryDataWithGemini(hasKey, contentOk, answer)
            m == MergePage(task.aggregated_results, q.data)
        IN IF q.raised
           THEN /\ pc' = "except"
                /\ task' = [task EXCEPT !.error = q.text]
           ELSE IF m.raised
           THEN /\ pc' = "except"
                /\ task' = [task EXCEPT !.error = "extend"]
           ELSE /\ pc' = "loop_nav"
                /\ task' = [task EXCEPT !.aggregated_results = m.d,
                                        !.pages_scraped = @ + 1,
                                        !.yielded = Append(@, q.data)]
    /\ UNCHANGED << env, request, jobs, active_jobs, profiles, svc, cancel, poll, hist, callers, pure >>

\* index.py 509-530: the local loop's single strategy, the next-button click.
NavOutcomes == {"clicked", "no_selector", "no_element", "click_raised"}

\* index.py 526-532: the strategy failed; the loop is left with the
\* aggregate so far as the result.
BrokenOut(t) ==
    [t EXCEPT !.result_data = Some(t.aggregated_results),
              !.exhausted = Some(t.pages_scraped)]

LoopNav ==
    /\ pc = "loop_nav"
    /\ IF task.i < request.max_pages - 1
       THEN \E o \in NavOutcomes :
              IF o = "clicked"
              THEN /\ pc' = "loop_check"
                   /\ task' = [task EXCEPT !.i = @ + 1]
              ELSE /\ pc' = "finish"
                   /\ task' = BrokenOut(task)
       ELSE /\ pc' = "loop_check"
            /\ task' = [task EXCEPT !.i = @ + 1]
    /\ UNCHANGED << env, request, jobs, active_jobs, profiles, svc, cancel, poll, hist, callers, pure >>

\* index.py 535-538: the single-page checkpoint.
SingleCheck ==
    /\ pc = "single_check"
    /\ IF CancelObserved(active_jobs)
       THEN /\ pc' = "done"
            /\ task' = ClosedOnCancel(task)
            /\ hist' = Observed(hist, task, "single")
       ELSE /\ pc' = "single_extract"
            /\ UNCHANGED << task, hist >>
    /\ UNCHANGED << env, request, jobs, active_jobs, profiles, svc, cancel, poll, callers, pure >>

\* index.py 540-542.
SingleExtract ==
    /\ pc = "single_extract"
    /\ \E hasKey \in BOOLEAN, contentOk \in BOOLEAN, answer \in PagePayloads(1) :
        LET q == QueryDataWithGemini(hasKey, contentOk, answer)
        IN IF q.raised
           THEN /\ pc' = "except"
                /\ task' = [task EXCEPT !.error = q.text]
           ELSE /\ pc' = "finish"
                /\ task' = [task EXCEPT !.result_data = Some(q.data),
                                        !.pages_scraped = 1,
                                        !.yielded = Append(@, q.data)]
    /\ UNCHANGED << env, request, jobs, active_jobs, profiles, svc, cancel, poll, hist, callers, pure >>

ChargesAnyCount(hasUser, n) == hasUser

\* index.py 559, 341: update_data_usage is called for an owner and a
\* positive item count only.
ShouldCharge(hasUser, n) == hasUser /\ n > 0

\* Observation: update_data_usage was called with n; it took effect if the
\* RPC went through.
Charged(h, charge, rpcOk, n) ==
    IF charge
    THEN [h EXCEPT !.deductCalls = @ + 1, !.deducted = IF rpcOk THEN @ + n ELSE @]
    ELSE h

\* index.py 544-560: close the browser; unless the cache says cancelled,
\* count the items and charge them.
Finish ==
    /\ pc = "finish"
    /\ IF CancelObserved(active_jobs)
       THEN /\ pc' = "done"
            /\ task' = ClosedOnCancel(task)
            /\ hist' = Observed(hist, task, "finish")
            /\ profiles' = profiles
       ELSE LET n == CountItemsLocal(task.result_data)
                charge == ShouldCharge(request.user_id, n)
            IN \E rpcOk \in BOOLEAN :
                /\ pc' = "db_complete"
                /\ task' = [task EXCEPT !.browser = FALSE, !.item_count = n]
                /\ profiles' = IF charge
                               THEN UpdateDataUsage(request.user_id, rpcOk, profiles, n)
                               ELSE profiles
                /\ hist' = Charged(hist, charge, rpcOk, n)
    /\ UNCHANGED << env, request, jobs, active_jobs, svc, cancel, poll, callers, pure >>

\* The fields a completion writes to the job's row (index.py 565-573, 347-355).
CompletedRow(row, count, data, pages) ==
    [row EXCEPT !.status = "completed", !.item_count = Some(count),
                !.data = data, !.pages_scraped = Some(pages)]

\* The fields a failure writes (index.py 589-595, 366-372).
FailedRow(row, text) == [row EXCEPT !.status = "failed", !.error = Some(text)]

\* index.py 562-576: the completion update; a store error is printed only.
DbComplete ==
    /\ pc = "db_complete"
    /\ \E ok \in BOOLEAN :
        /\ jobs' = IF ok /\ jobs.exists
                   THEN CompletedRow(jobs, task.item_count, task.result_data, task.pages_scraped)
                   ELSE jobs
        /\ hist' = [hist EXCEPT !.wrote = IF ok THEN @ \cup {"completed"} ELSE @]
    /\ pc' = "cache_complete"
    /\ UNCHANGED << env, request, active_jobs, profiles, task, svc, cancel, poll, callers, pure >>

\* index.py 578-580.
CacheComplete ==
    /\ pc = "cache_complete"
    /\ active_jobs' = [active_jobs EXCEPT !.status = "completed", !.data = task.result_data]
    /\ pc' = "done"
    /\ hist' = [hist EXCEPT !.outcome = "completed"]
    /\ UNCHANGED << env, request, jobs, profiles, task, svc, cancel, poll, callers, pure >>

\* index.py 582-598: the task's handler; leaving the playwright block ends
\* the browser.
HandleException ==
    /\ pc = "except"
    /\ \E ok \in BOOLEAN :
        /\ jobs' = IF ok /\ jobs.exists THEN FailedRow(jobs, task.error) ELSE jobs
        /\ hist' = [hist EXCEPT !.wrote = @ \cup {IF ok THEN "failed" ELSE "failed_lost"},
                                !.outcome = "failed"]
    /\ task' = [task EXCEPT !.browser = FALSE]
    /\ pc' = "done"
    /\ UNCHANGED << env, request, active_jobs, profiles, svc, cancel, poll, callers, pure >>

\* --------------------------------------------- the browser service
\* scraper_service/main.py 323-325, for the request the orchestrator sends
\* (start_page 1, end_page max_pages or 1; index.py 290-291).
EndPage(r) == IF r.pagination_enabled THEN r.max_pages ELSE 1
OnePageMore(r) == IF r.pagination_enabled THEN EndPage(r) + 1 ELSE 1

PagesToScrape(r) == IF r.pagination_enabled THEN EndPage(r) - 1 + 1 ELSE 1

Attempt(strategy, result) == [s |-> strategy, r |-> result]

\* main.py 257-360: normalise the session, launch the browser (which may
\* raise), go to the starting page (a navigation error is caught and printed
\* only; nav_error is the caught exception, gone once the loop is entered).
SvcStart ==
    /\ svc.pc = "start"
    /\ \E launchOk \in BOOLEAN, navOk \in BOOLEAN :
        svc' = IF launchOk
               THEN [svc EXCEPT !.pc = "collect", !.browser = TRUE, !.i = 0,
                                !.current_page_num = 1, !.nav_error = ~navOk]
               ELSE [svc EXCEPT !.pc = "responded", !.fault = TRUE,
                                !.resp = [kind |-> "error", data |-> None]]
    /\ UNCHANGED << env, request, jobs, active_jobs, profiles, pc, task, cancel, poll, hist, callers, pure >>

\* main.py 362-381: wait, collect the page's markup, and decide whether a
\* next page is wanted.
SvcCollect ==
    /\ svc.pc = "collect"
    /\ svc' = [svc EXCEPT
                 !.all_content = Append(@, svc.current_page_num),
                 !.log = <<>>,
                 !.nav_error = FALSE,
                 !.next_url = FALSE,
                 !.pc = IF request.pagination_enabled /\ svc.i < PagesToScrape(request) - 1
                        THEN "s1" ELSE "combine"]
    /\ UNCHANGED << env, request, jobs, active_jobs, profiles, pc, task, cancel, poll, hist, callers, pure >>

PageNumberKept(v) ==
    [v EXCEPT !.i = @ + 1, !.pc = "collect"]

\* The service's state after a strategy has navigated (the loop's continue).
Navigated(v) ==
    [v EXCEPT !.current_page_num = @ + 1, !.i = @ + 1, !.pc = "collect"]

KeepsPredictedUrl == TRUE

\* main.py 402: next_url after the goto of the predicted URL has raised
\* (None: FALSE).
NextUrlAfterFailedGoto == FALSE

\* main.py 383-402: strategy 1, the pattern-learned URL.
SvcPattern ==
    /\ svc.pc = "s1"
    /\ IF request.examples
       THEN \E r \in {"no_url", "nav_ok", "nav_failed"} :
              LET v == [svc EXCEPT !.log = Append(@, Attempt("pattern", r))] IN
              svc' = IF r = "nav_ok" THEN Navigated(v)
                     ELSE IF r = "nav_failed"
                     THEN [v EXCEPT !.next_url = NextUrlAfterFailedGoto, !.pc = "s2"]
                     ELSE [v EXCEPT !.next_url = FALSE, !.pc = "s2"]
       ELSE svc' = [svc EXCEPT !.pc = "s2"]
    /\ UNCHANGED << env, request, jobs, active_jobs, profiles, pc, task, cancel, poll, hist, callers, pure >>

\* main.py 404-417: strategy 2, the next-button click.
SvcButton ==
    /\ svc.pc = "s2"
    /\ IF ~svc.next_url
       THEN \E r \in {"no_selector", "click_ok", "click_failed"} :
              LET v == [svc EXCEPT !.log = Append(@, Attempt("button", r))] IN
              svc' = IF r = "click_ok" THEN Navigated(v) ELSE [v EXCEPT !.pc = "s3"]
       ELSE svc' = [svc EXCEPT !.pc = "s3"]
    /\ UNCHANGED << env, request, jobs, active_jobs, profiles, pc, task, cancel, poll, hist, callers, pure >>

FailsWhenExhausted(v) ==
    [v EXCEPT !.pc = "responded", !.browser = FALSE,
              !.exhausted = Some(Len(v.all_content)),
              !.resp = [kind |-> "error", data |-> None]]

\* main.py 438: all strategies have failed; the loop is left.
Exhausted(v) ==
    [v EXCEPT !.pc = "combine", !.exhausted = Some(Len(v.all_content))]

\* main.py 419-438: strategy 3, the URL-pattern guess.
SvcHeuristic ==
    /\ svc.pc = "s3"
    /\ \E r \in {"nav_ok", "nav_failed"} :
        LET v == [svc EXCEPT !.log = Append(@, Attempt("heuristic", r))] IN
        svc' = IF r = "nav_ok" THEN Navigated(v) ELSE Exhausted(v)
    /\ UNCHANGED << env, request, jobs, active_jobs, profiles, pc, task, cancel, poll, hist, callers, pure >>

\* What the completion service may answer for the combined text of `content`.
RemotePayloads(content) == { ItemsPayload(content), ErrorPayload }

\* main.py 440-475: join the collected pages, close the browser, extract
\* once from the combined text (or return the markup when no query came).
SvcExtract ==
    /\ svc.pc = "combine"
    /\ IF request.query
       THEN \E hasKey \in BOOLEAN, answer \in RemotePayloads(svc.all_content) :
              svc' = [svc EXCEPT !.pc = "responded", !.browser = FALSE,
                                 !.extracted = Some(svc.all_content),
                                 !.resp = [kind |-> "data",
                                           data |-> Some(ExtractWithGemini(hasKey, answer))]]
       ELSE svc' = [svc EXCEPT !.pc = "responded", !.browser = FALSE,
                               !.resp = [kind |-> "html", data |-> None]]
    /\ UNCHANGED << env, request, jobs, active_jobs, profiles, pc, task, cancel, poll, hist, callers, pure >>

\* main.py 477-493: a browser error or the alarm ends the call with a 500.
SvcFail ==
    /\ svc.pc \in {"collect", "s1", "s2", "s3", "combine"}
    /\ svc' = [svc EXCEPT !.pc = "responded", !.browser = FALSE, !.fault = TRUE,
                          !.nav_error = FALSE,
                          !.resp = [kind |-> "error", data |-> None]]
    /\ UNCHANGED << env, request, jobs, active_jobs, profiles, pc, task, cancel, poll, hist, callers, pure >>

\* -------------------------------------------- run_scrape_task, delegated
RawHtmlPreview == << Entry("raw_html_preview", FALSE, <<0>>) >>

\* index.py 301-323: final_data, for a response that carries data or html.
RemoteFinalData(resp) ==
    IF resp.kind = "data" THEN resp.data
    ELSE IF resp.kind = "html" THEN Some(RawHtmlPreview)
    ELSE None

\* index.py 304-315: pages_scraped of a delegated job: 1, unless the data
\* carries a key "all"; then it is data.pagination.total_pages (the entry
\* "pagination" holds that number here), and 1 if that is missing.
RemotePagesScraped(resp) ==
    IF resp.kind = "data" /\ HasKey(resp.data[1], "all")
          /\ HasKey(resp.data[1], "pagination")
    THEN Get(resp.data[1], "pagination").v[1]
    ELSE 1

\* index.py 325-339.
CountItemsRemote(final) ==
    IF final = None \/ final = Some(<<>>) THEN 0
    ELSE IF IsListAggregate(final[1]) THEN Len(final[1][1].v)
    ELSE IF HasKey(final[1], "all") /\ Get(final[1], "all").list
         THEN Len(Get(final[1], "all").v)
         ELSE FirstListLen(final[1])

FallsBackToLocal == "local_setup"

\* index.py 361-376: where a failed delegated call takes the task: into the
\* delegated path's own handler, which ends the task.
AfterRemoteFailure == "remote_except"

\* index.py 280-342: the response has arrived; a 500 raises in
\* raise_for_status, anything else is counted and charged.
RemoteResponse ==
    /\ pc = "remote_wait" /\ svc.pc = "responded"
    /\ IF svc.resp.kind = "error"
       THEN /\ pc' = AfterRemoteFailure
            /\ task' = [task EXCEPT !.error = "Remote Service Failed: status"]
            /\ UNCHANGED << profiles, hist >>
       ELSE LET final == RemoteFinalData(svc.resp)
                n == CountItemsRemote(final)
                charge == ShouldCharge(request.user_id, n)
            IN \E rpcOk \in BOOLEAN :
                /\ pc' = "remote_db"
                /\ task' = [task EXCEPT !.result_data = final, !.item_count = n,
                                        !.pages_scraped = RemotePagesScraped(svc.resp)]
                /\ profiles' = IF charge
                               THEN UpdateDataUsage(request.user_id, rpcOk, profiles, n)
                               ELSE profiles
                /\ hist' = Charged(hist, charge, rpcOk, n)
    /\ UNCHANGED << env, request, jobs, active_jobs, svc, cancel, poll, callers, pure >>

\* index.py 280-298, 361: the call itself fails (connection, 120 s timeout).
RemoteCallFails ==
    /\ pc = "remote_wait" /\ svc.pc # "responded"
    /\ pc' = AfterRemoteFailure
    /\ task' = [task EXCEPT !.error = "Remote Service Failed: call"]
    /\ UNCHANGED << env, request, jobs, active_jobs, profiles, svc, cancel, poll, hist, callers, pure >>

\* index.py 344-359.
RemoteDbComplete ==
    /\ pc = "remote_db"
    /\ \E ok \in BOOLEAN :
        /\ jobs' = IF ok /\ jobs.exists
                   THEN CompletedRow(jobs, task.item_count, task.result_data, task.pages_scraped)
                   ELSE jobs
        /\ hist' = [hist EXCEPT !.wrote = IF ok THEN @ \cup {"completed"} ELSE @,
                                !.outcome = "completed"]
    /\ pc' = "done"
    /\ UNCHANGED << env, request, active_jobs, profiles, task, svc, cancel, poll, callers, pure >>

\* index.py 361-376.
RemoteExcept ==
    /\ pc = "remote_except"
    /\ \E ok \in BOOLEAN :
        /\ jobs' = IF ok /\ jobs.exists THEN FailedRow(jobs, task.error) ELSE jobs
        /\ hist' = [hist EXCEPT !.wrote = @ \cup {IF ok THEN "failed" ELSE "failed_lost"},
                                !.outcome = "failed"]
    /\ pc' = "done"
    /\ UNCHANGED << env, request, active_jobs, profiles, task, svc, cancel, poll, callers, pure >>

Next ==
    \/ Submit \/ CancelDb \/ CancelMem
    \/ TaskStart \/ LocalSetup \/ LoopCheck \/ LoopExtract \/ LoopNav
    \/ SingleCheck \/ SingleExtract \/ Finish \/ DbComplete \/ CacheComplete
    \/ HandleException
    \/ SvcStart \/ SvcCollect \/ SvcPattern \/ SvcButton \/ SvcHeuristic
    \/ SvcExtract \/ SvcFail
    \/ RemoteResponse \/ RemoteCallFails \/ RemoteDbComplete \/ RemoteExcept

Spec == Init /\ [][Next]_vars

\* The same system, and beside it the browser service answering a request
\* that was posted to its /scrape endpoint directly (main.py 235-236), with
\* no job behind it: the request's max_pages stands for the end_page of the
\* service's own ScrapeRequest (main.py 42-43), which index.py 290-291 fills
\* from max_pages for a job.
DirectRequests == { r \in Requests(TRUE) : ~r.user_id }

InitDirect ==
    /\ profiles = Profile(LimitBound, 0, 0)
    /\ callers = <<>>
    /\ pure = <<>>
    /\ \/ /\ env \in [browser_service_url : BOOLEAN]
          /\ JobIdle
       \/ /\ env = [browser_service_url |-> TRUE]
          /\ request \in DirectRequests
          /\ pc = "direct"
          /\ svc = [SvcInit EXCEPT !.pc = "start"]
          /\ jobs = NoRow /\ active_jobs = NoEntry /\ task = TaskInit
          /\ cancel = NoCancel /\ poll = NoPoll /\ hist = HistInit

SpecDirect == InitDirect /\ [][Next]_vars

\* The same system, watched for cancel requests that come before the task
\* has begun.
InitEarly ==
    /\ env \in [browser_service_url : BOOLEAN]
    /\ profiles = Profile(LimitBound, 0, 0)
    /\ request = NoRequest /\ jobs = NoRow /\ active_jobs = NoEntry
    /\ pc = "idle" /\ task = TaskInit /\ svc = SvcInit
    /\ cancel = NoCancel /\ poll = NoPoll
    /\ hist = [HistInit EXCEPT !.early = "no"]
    /\ callers = <<>>
    /\ pure = <<>>

SpecEarly == InitEarly /\ [][Next]_vars

\* The same system with the status surface being polled.  A poll writes
\* nothing the job reads, so Spec leaves it out.  The status surface reads no
\* profile: the owner starts with the whole allotment unused.
NextStatus == Next \/ GetJobStatus

InitStatus == Init /\ profiles = Profile(LimitBound, 0, 0)

SpecStatus == InitStatus /\ [][NextStatus]_vars


\* ------------------------------------------------- the wall clock
\* index.py 296: the delegated call carries timeout=120; when it elapses
\* requests.post raises and the delegated handler records the text.
ReadTimedOut == "Remote Service Failed: Read timed out"

\* The job's execution passes the wall-clock ceiling.  The delegated call
\* (index.py 280-298) raises its timeout; the local path (382-598) arms no
\* timer, so nothing in the task reacts.
CeilingPasses ==
    /\ ~hist.ceiling
    /\ \/ /\ pc \in { "local_setup", "loop_check", "loop_extract", "loop_nav",
                       "single_check", "single_extract", "finish" }
          /\ UNCHANGED << pc, task >>
       \/ /\ pc = "remote_wait" /\ svc.pc # "responded"
          /\ pc' = AfterRemoteFailure
          /\ task' = [task EXCEPT !.error = ReadTimedOut]
    /\ hist' = [hist EXCEPT !.ceiling = TRUE]
    /\ UNCHANGED << env, request, jobs, active_jobs, profiles, svc, cancel, poll, callers, pure >>

NextClock == Next \/ CeilingPasses

SpecClock == Init /\ [][NextClock]_vars

\* ------------------------------------ direct calls of the atomic ledger
\* RPC atomic_deduct_credits (a database function): one transaction that
\* checks the balance and takes n units, the recurring allotment first.
AtomicDeductCredits(p, n) ==
    LET sub == SubscriptionAvailable(p)
        fromSub == Min(sub, n)
        fromOne == n - fromSub
    IN IF TotalAvailable(p) >= n
       THEN [ success |-> TRUE, from_subscription |-> fromSub, from_onetime |-> fromOne,
              profile |-> [p EXCEPT !.items_used = @ + fromSub,
                                    !.one_time_credits = @ - fromOne] ]
       ELSE [ success |-> FALSE, from_subscription |-> 0, from_onetime |-> 0,
              profile |-> p ]

IgnoresRefusal(hasUser, rpcOk, result) ==
    IF ~hasUser \/ ~rpcOk THEN "500" ELSE "ok"

\* check_and_deduct_credits (index.py 150-184): what the caller gets.
CheckAndDeductOutcome(hasUser, rpcOk, result) ==
    IF ~hasUser \/ ~rpcOk THEN "500"
    ELSE IF ~result.success THEN "402"
    ELSE "ok"

Callers == 1..2

LedgerInit ==
    /\ env = [browser_service_url |-> FALSE]
    /\ profiles \in Profiles
    /\ JobIdle
    /\ pure = <<>>
    /\ \E ns \in [Callers -> 1..MaxDeduct], us \in [Callers -> BOOLEAN] :
        callers = [ start |-> profiles,
                    calls |-> [c \in Callers |->
                                 [ user_id |-> us[c], item_count |-> ns[c],
                                   outcome |-> "pending" ]] ]

\* One check_and_deduct_credits call, from entry to return.
CheckAndDeductCredits(c) ==
    /\ callers.calls[c].outcome = "pending"
    /\ \E rpcOk \in BOOLEAN :
        LET call == callers.calls[c]
            reached == call.user_id /\ rpcOk
            result == AtomicDeductCredits(profiles, call.item_count)
        IN /\ profiles' = IF reached THEN result.profile ELSE profiles
           /\ callers' = [callers EXCEPT !.calls[c].outcome =
                            CheckAndDeductOutcome(call.user_id, rpcOk, result)]
    /\ UNCHANGED << env, request, jobs, active_jobs, pc, task, svc, cancel, poll, hist, pure >>

LedgerNext == \E c \in Callers : CheckAndDeductCredits(c)

SpecLedger == LedgerInit /\ [][LedgerNext]_vars


\* ------------------------------------------- pure operations on their own
\* Everything but `pure` at rest: no job, no request, no direct ledger call.
Quiet ==
    /\ env = [browser_service_url |-> FALSE]
    /\ profiles = Profile(LimitBound, 0, 0)
    /\ JobIdle
    /\ callers = <<>>

\* ---------------------------------------------------- truncation repair
\* A response text is a sequence of characters: the four brackets, blank
\* space, and "x" for any other character.
Chars == {"{", "}", "[", "]", "x", " "}
Texts == UNION { [1..n -> Chars] : n \in 0..MaxText }

RECURSIVE StripLeft(_)
StripLeft(s) == IF s # <<>> /\ Head(s) = " " THEN StripLeft(Tail(s)) ELSE s

RECURSIVE StripRight(_)
StripRight(s) ==
    IF s # <<>> /\ s[Len(s)] = " " THEN StripRight(SubSeq(s, 1, Len(s) - 1)) ELSE s

\* str.strip() (local_agentql_service.py 29).
Strip(s) == StripRight(StripLeft(s))

\* str.count(c).
Count(s, c) == Cardinality({ n \in 1..Len(s) : s[n] = c })

\* c * n (the empty text for n <= 0).
Repeat(c, n) == [i \in 1..n |-> c]

EndsWith(s, c) == s # <<>> /\ s[Len(s)] = c

AlwaysTruncated(t) == TRUE

\* local_agentql_service.py 32: the text counts as truncated.
Truncated(t) == ~EndsWith(t, "}") /\ ~EndsWith(t, "]")

\* clean_json_string (local_agentql_service.py 25-42): all missing braces
\* are appended first, then all missing brackets.
CleanJsonString(s) ==
    LET t == Strip(s) IN
    IF Truncated(t)
    THEN t \o Repeat("}", Count(t, "{") - Count(t, "}"))
           \o Repeat("]", Count(t, "[") - Count(t, "]"))
    ELSE t

NoRepair == [stage |-> "in", text |-> <<>>, once |-> <<>>, twice |-> <<>>]

InitRepair ==
    /\ Quiet
    /\ pure \in { [NoRepair EXCEPT !.text = t] : t \in Texts }

\* The repair step of query_data_with_gemini (local_agentql_service.py 124).
RepairOnce ==
    /\ pure.stage = "in"
    /\ pure' = [pure EXCEPT !.stage = "once", !.once = CleanJsonString(pure.text)]
    /\ UNCHANGED << env, request, jobs, active_jobs, profiles, pc, task, svc, cancel, poll, hist, callers >>

\* The repair applied to its own result.
RepairTwice ==
    /\ pure.stage = "once"
    /\ pure' = [pure EXCEPT !.stage = "twice", !.twice = CleanJsonString(pure.once)]
    /\ UNCHANGED << env, request, jobs, active_jobs, profiles, pc, task, svc, cancel, poll, hist, callers >>

NextRepair == RepairOnce \/ RepairTwice

SpecRepair == InitRepair /\ [][NextRepair]_vars


\* -------------------------------------------------- session normalisation
\* A cookie is modelled by its sameSite attribute: a string, "absent" when
\* the cookie has none, "null" when it holds JSON null (no string).
SameSiteValues ==
    { "absent", "null", "no_restriction", "unspecified", "lax", "LAX", "Lax",
      "strict", "Strict", "none", "NONE", "None", "bogus" }

\* A session payload: `depth` 0 is a bare array of cookies, 1 an object
\* {"cookies": [...]}.
Sessions ==
    { [depth |-> d, cookies |-> cs] :
        d \in {0, 1}, cs \in UNION { [1..n -> SameSiteValues] : n \in 0..MaxCookies } }

\* str.lower() on the values above.
Lower(v) ==
    IF v \in {"LAX", "Lax"} THEN "lax"
    ELSE IF v = "Strict" THEN "strict"
    ELSE IF v \in {"NONE", "None"} THEN "none"
    ELSE v

\* index.py 249-259 (main.py 269-281): one cookie that has the attribute.
\* val.lower() raises on a value that is no string.
NormaliseSameSite(v) ==
    IF v \in {"no_restriction", "unspecified"} THEN [raised |-> FALSE, v |-> "None"]
    ELSE IF v = "null" THEN [raised |-> TRUE, v |-> v]
    ELSE IF Lower(v) = "lax" THEN [raised |-> FALSE, v |-> "Lax"]
    ELSE IF Lower(v) = "strict" THEN [raised |-> FALSE, v |-> "Strict"]
    ELSE IF Lower(v) = "none" THEN [raised |-> FALSE, v |-> "None"]
    ELSE IF v \notin {"Strict", "Lax", "None"} THEN [raised |-> FALSE, v |-> "absent"]
    ELSE [raised |-> FALSE, v |-> v]

\* index.py 247-259: the cookies are rewritten in place, in order; a raise
\* leaves the ones before it rewritten.
RECURSIVE NormaliseCookies(_, _)
NormaliseCookies(cs, n) ==
    IF n > Len(cs) THEN [raised |-> FALSE, cookies |-> cs]
    ELSE IF cs[n] = "absent" THEN NormaliseCookies(cs, n + 1)
    ELSE LET r == NormaliseSameSite(cs[n]) IN
         IF r.raised THEN [raised |-> TRUE, cookies |-> cs]
         ELSE NormaliseCookies([cs EXCEPT ![n] = r.v], n + 1)

AlwaysWraps(s) == [s EXCEPT !.depth = @ + 1]

\* index.py 241-243: a bare array is wrapped into {"cookies": [...]}.
WrapCookies(s) == IF s.depth = 0 THEN [s EXCEPT !.depth = 1] ELSE s

\* index.py 240-259 (main.py 260-281).  An empty array is falsy and is left
\* alone; the cookies are looked for under the key "cookies" only.
NormaliseSession(s) ==
    IF s.depth = 0 /\ s.cookies = <<>> THEN [raised |-> FALSE, session |-> s]
    ELSE LET w == WrapCookies(s)
             r == NormaliseCookies(w.cookies, 1)
         IN IF w.depth = 1
            THEN [raised |-> r.raised, session |-> [w EXCEPT !.cookies = r.cookies]]
            ELSE [raised |-> FALSE, session |-> w]

NoSessionRun ==
    [ stage |-> "in", session |-> [depth |-> 0, cookies |-> <<>>],
      once |-> [raised |-> FALSE, session |-> [depth |-> 0, cookies |-> <<>>]],
      twice |-> [raised |-> FALSE, session |-> [depth |-> 0, cookies |-> <<>>]] ]

InitSession ==
    /\ Quiet
    /\ pure \in { [NoSessionRun EXCEPT !.session = s] : s \in Sessions }

\* The normalisation at the start of run_scrape_task (and of the browser
\* service's scrape).
NormaliseOnce ==
    /\ pure.stage = "in"
    /\ pure' = [pure EXCEPT !.stage = "once", !.once = NormaliseSession(pure.session)]
    /\ UNCHANGED << env, request, jobs, active_jobs, profiles, pc, task, svc, cancel, poll, hist, callers >>

\* The normalisation applied to what the first one left (the browser
\* service normalises the session the orchestrator has normalised).
NormaliseAgain ==
    /\ pure.stage = "once"
    /\ pure' = [pure EXCEPT !.stage = "twice",
                            !.twice = NormaliseSession(pure.once.session)]
    /\ UNCHANGED << env, request, jobs, active_jobs, profiles, pc, task, svc, cancel, poll, hist, callers >>

NextSession == NormaliseOnce \/ NormaliseAgain

SpecSession == InitSession /\ [][NextSession]_vars


\* ------------------------------------------------------------ item count
\* Final aggregates handed to the count: none, an empty dict, a list, and
\* dicts of up to two fields whose values are lists or scalars.
CountKeys == {"items", "all", "name"}
Lists == { [n \in 1..k |-> n] : k \in 0..MaxCount }
Fields ==
    { Entry(k, TRUE, xs) : k \in CountKeys, xs \in Lists }
        \cup { Entry(k, FALSE, <<0>>) : k \in CountKeys }
Aggregates ==
    {None, Some(<<>>)}
        \cup { Some(ListAggregate(xs)) : xs \in (Lists \ {<<>>}) }
        \cup { Some(<<f>>) : f \in Fields }
        \cup { Some(<<p[1], p[2]>>) :
                 p \in { q \in Fields \X Fields : q[1].k # q[2].k } }

NoCount == [stage |-> "in", agg |-> None, local |-> 0, remote |-> 0]

InitCount ==
    /\ Quiet
    /\ pure \in { [NoCount EXCEPT !.agg = a] : a \in Aggregates }

\* The count of the local completion path (index.py 547-557).
CountLocal ==
    /\ pure.stage = "in"
    /\ pure' = [pure EXCEPT !.stage = "local", !.local = CountItemsLocal(pure.agg)]
    /\ UNCHANGED << env, request, jobs, active_jobs, profiles, pc, task, svc, cancel, poll, hist, callers >>

\* The count of the delegated completion path (index.py 325-339).
CountRemote ==
    /\ pure.stage = "local"
    /\ pure' = [pure EXCEPT !.stage = "both", !.remote = CountItemsRemote(pure.agg)]
    /\ UNCHANGED << env, request, jobs, active_jobs, profiles, pc, task, svc, cancel, poll, hist, callers >>

NextCount == CountLocal \/ CountRemote

SpecCount == InitCount /\ [][NextCount]_vars

\* ------------------------------------------------- next-page selector
\* A clickable element as find_next_page_button collects it (main.py
\* 144-152): `id` and `href` are None when the attribute is empty, `class`
\* is the list of class tokens.  Element i of a page carries i as its id and
\* as its href, so a selector names the element it was built from.
ClassLists == { <<>>, <<"next">>, <<"btn", "next">> }
Shapes == [id : BOOLEAN, class : ClassLists, href : BOOLEAN]
Element(i, shape) ==
    [ id |-> IF shape.id THEN Some(i) ELSE None,
      class |-> shape.class,
      href |-> IF shape.href THEN Some(i) ELSE None ]

\* clickable_elements (main.py 132-152) of a page with n matching elements;
\* element i stands at index i (0-based) in the list.
Candidates(n, shape) == [k \in 1..n |-> Element(k - 1, shape)]

\* main.py 161: the elements shown in the prompt, clickable_elements[:20].
Presented(cands) == SubSeq(cands, 1, Min(Len(cands), PRESENTED))

\* The model's answer after strip() (main.py 170): a text, or a run of
\* digits with its value.
ButtonAnswers ==
    { [text |-> t, int |-> 0] : t \in {"NONE", "none", "next", "-1"} }
        \cup { [text |-> "digits", int |-> k] : k \in 0..(MaxCandidates + 1) }
Upper(a) == IF a.text = "none" THEN "NONE" ELSE a.text
IsDigit(a) == a.text = "digits"

Selector(by, el, v) == [by |-> by, el |-> el, v |-> v]

ClassBeforeId(selected, idx) ==
    IF selected.class # <<>> THEN Some(Selector("class", idx, selected.class[1]))
    ELSE IF selected.id # None THEN Some(Selector("id", idx, ""))
    ELSE IF selected.href # None THEN Some(Selector("href", idx, ""))
    ELSE None

\* main.py 179-187: "#id", else "." and the first class token, else
\* a[href='...'], else None.
BuildSelector(selected, idx) ==
    IF selected.id # None THEN Some(Selector("id", idx, ""))
    ELSE IF selected.class # <<>> THEN Some(Selector("class", idx, selected.class[1]))
    ELSE IF selected.href # None THEN Some(Selector("href", idx, ""))
    ELSE None

\* find_next_page_button (main.py 118-194).  callOk: neither page.content()
\* nor the model call raised (an exception is caught at 192-194).
FindNextPageButton(hasKey, callOk, cands, answer) ==
    IF ~hasKey THEN None
    ELSE IF ~callOk THEN None
    ELSE IF cands = <<>> THEN None
    ELSE IF Upper(answer) = "NONE" \/ ~IsDigit(answer) THEN None
    ELSE IF answer.int < 0 \/ answer.int >= Len(cands) THEN None
    ELSE BuildSelector(cands[answer.int + 1], answer.int)

\* The local orchestrator's variant is handed the markup and answers with
\* selector text; the text is a sequence of tokens (BackTick stands for the
\* backquote character).
BackTick == "bt"
ElementTokens == {" ", BackTick, "NONE", "#next"}
ElementAnswers ==
    UNION { [1..k -> ElementTokens] : k \in 0..MaxAnswer }

\* str.replace(c, "").
RECURSIVE Without(_, _)
Without(s, c) ==
    IF s = <<>> THEN <<>>
    ELSE IF Head(s) = c THEN Without(Tail(s), c)
    ELSE <<Head(s)>> \o Without(Tail(s), c)

\* find_next_page_element (local_agentql_service.py 145-177).
FindNextPageElement(hasKey, callOk, answer) ==
    IF ~hasKey THEN None
    ELSE IF ~callOk THEN None
    ELSE LET selector == Without(Strip(answer), BackTick) IN
         IF Count(selector, "NONE") > 0 \/ selector = <<>> THEN None
         ELSE Some(selector)

NoSelectorRun ==
    [ stage |-> "in", fn |-> "button", hasKey |-> TRUE, callOk |-> TRUE,
      n |-> 0, shape |-> [id |-> FALSE, class |-> <<>>, href |-> FALSE],
      answer |-> [text |-> "NONE", int |-> 0], text |-> <<>>,
      selector |-> None, css |-> None ]

InitSelector ==
    /\ Quiet
    /\ pure \in
         { [NoSelectorRun EXCEPT !.hasKey = k, !.callOk = c, !.n = n,
                                 !.shape = s, !.answer = a] :
             k \in BOOLEAN, c \in BOOLEAN, n \in 0..MaxCandidates,
             s \in Shapes, a \in ButtonAnswers }
         \cup
         { [NoSelectorRun EXCEPT !.fn = "element", !.hasKey = k, !.callOk = c,
                                 !.text = t] :
             k \in BOOLEAN, c \in BOOLEAN, t \in ElementAnswers }

\* The browser service looks for the next button (main.py 407).
FindButton ==
    /\ pure.stage = "in" /\ pure.fn = "button"
    /\ pure' = [pure EXCEPT
                  !.stage = "done",
                  !.selector = FindNextPageButton(pure.hasKey, pure.callOk,
                                   Candidates(pure.n, pure.shape), pure.answer)]
    /\ UNCHANGED << env, request, jobs, active_jobs, profiles, pc, task, svc, cancel, poll, hist, callers >>

\* The local loop looks for the next element (index.py 510).
FindElement ==
    /\ pure.stage = "in" /\ pure.fn = "element"
    /\ pure' = [pure EXCEPT
                  !.stage = "done",
                  !.css = FindNextPageElement(pure.hasKey, pure.callOk, pure.text)]
    /\ UNCHANGED << env, request, jobs, active_jobs, profiles, pc, task, svc, cancel, poll, hist, callers >>

NextSelector == FindButton \/ FindElement

SpecSelector == InitSelector /\ [][NextSelector]_vars

\* ------------------------------------------------- URL-pattern heuristic
\* The current URL behind its host: the path's segments, whether the path
\* ends in "/", and the query (None when the URL has no "?").  A page number
\* is written in decimal.
Decimal == <<"1", "2", "3", "4">>
IsDigits(s) == \E n \in 1..Len(Decimal) : Decimal[n] = s
Segments == {"list", "page", "homepage", "2", "3"}
Params == { [k |-> "q", v |-> "1"], [k |-> "page", v |-> "2"], [k |-> "page", v |-> "3"] }
Urls ==
    [ segs : UNION { [1..k -> Segments] : k \in 1..MaxSegs },
      slash : BOOLEAN,
      query : {None} \cup { Some(q) : q \in UNION { [1..k -> Params] : k \in 0..MaxParams } } ]

\* main.py 424: "page/" in current_url (the path's text).
ContainsPageSlash(u) ==
    \E i \in 1..Len(u.segs) :
        /\ u.segs[i] \in {"page", "homepage"}
        /\ (i < Len(u.segs) \/ u.slash)

\* main.py 425: re.sub(r"/page/\d+/?", "/page/<n>/", current_url): every
\* segment of digits behind a segment "page" becomes <n>; a match at the
\* path's end leaves the path ending in "/".
SubPage(u, n) ==
    LET hit(i) == i > 1 /\ u.segs[i - 1] = "page" /\ IsDigits(u.segs[i]) IN
    [u EXCEPT !.segs = [i \in 1..Len(u.segs) |-> IF hit(i) THEN Decimal[n] ELSE u.segs[i]],
              !.slash = u.slash \/ hit(Len(u.segs))]

\* main.py 424-429: the guessed URL of page n.
FallbackUrl(u, n) ==
    IF ContainsPageSlash(u) THEN SubPage(u, n)
    ELSE IF u.query # None
    THEN [u EXCEPT !.query = Some(u.query[1] \o <<[k |-> "page", v |-> Decimal[n]]>>)]
    ELSE [u EXCEPT !.segs = u.segs \o <<"page", Decimal[n]>>, !.slash = TRUE]

NoGuess ==
    [ stage |-> "in", next_page_num |-> 2,
      url |-> [segs |-> <<"list">>, slash |-> FALSE, query |-> None],
      next_url |-> [segs |-> <<"list">>, slash |-> FALSE, query |-> None] ]

InitGuess ==
    /\ Quiet
    /\ pure \in { [NoGuess EXCEPT !.url = u, !.next_url = u, !.next_page_num = n] :
                    u \in Urls, n \in {2, 3} }

\* main.py 422-429.
GuessUrl ==
    /\ pure.stage = "in"
    /\ pure' = [pure EXCEPT !.stage = "guessed",
                            !.next_url = FallbackUrl(pure.url, pure.next_page_num)]
    /\ UNCHANGED << env, request, jobs, active_jobs, profiles, pc, task, svc, cancel, poll, hist, callers >>

\* main.py 431-438: the goto of the guess; when it does not raise, the step
\* counts as a navigation.
GotoGuess ==
    /\ pure.stage = "guessed"
    /\ \E ok \in BOOLEAN :
        pure' = [pure EXCEPT !.stage = IF ok THEN "counted" ELSE "failed"]
    /\ UNCHANGED << env, request, jobs, active_jobs, profiles, pc, task, svc, cancel, poll, hist, callers >>

NextGuess == GuessUrl \/ GotoGuess

SpecGuess == InitGuess /\ [][NextGuess]_vars


\* ============================================================ properties

\* C1: once the persisted status of the job is completed, failed or
\* cancelled, no later write changes the job's row (status, data, error).
C1_TerminalStatusWrittenOnce ==
    [][Terminal(jobs.status) => jobs' = jobs]_vars

\* C2: a paginated job with page budget n for which the cancellation flag
\* was set (in the store and in the cache) after page k's work and before
\* page k+1's, 1 <= k < n, and whose task saw the flag at its next
\* checkpoint, ends with persisted status cancelled, persisted
\* pages_scraped = k and no persisted data.
C2_CancelledBetweenPages ==
    ( /\ pc = "done" /\ hist.outcome = "cancelled"
      /\ request.pagination_enabled
      /\ hist.flagAt # None /\ hist.cancelDbOk
      /\ hist.flagAt[1] \in 1..(request.max_pages - 1) )
    => ( /\ jobs.status = "cancelled"
         /\ jobs.pages_scraped = hist.flagAt
         /\ jobs.data = None )

\* C3: once the task has seen the cancellation flag at a checkpoint it has
\* ended: no page is extracted after the one count it saw, the browser is
\* closed, the task has written nothing to the store (no completed status,
\* no data), nothing has been charged, the cache keeps status cancelled, and
\* so does the store if a cancel request reached it.
C3_ObservedCancellationStops ==
    hist.outcome = "cancelled" =>
        /\ pc = "done"
        /\ ~task.browser
        /\ Some(task.pages_scraped) = hist.obsPages
        /\ hist.wrote = {}
        /\ jobs.data = None /\ jobs.status \in {"running", "cancelled"}
        /\ hist.deductCalls = 0 /\ hist.deducted = 0
        /\ active_jobs.status = "cancelled" /\ active_jobs.data = None
        /\ (hist.cancelDbOk => jobs.status = "cancelled")

C3_Witness ==
    /\ hist.outcome = "cancelled" /\ hist.obsAt = "loop"
    /\ task.pages_scraped >= 1
    /\ jobs.status = "cancelled"

\* A cancel request has been recorded in full: the call has returned, its
\* store update went through and the cache entry carries the flag.
CancelRecorded ==
    cancel.pc = "idle" /\ hist.cancelDbOk /\ active_jobs.status = "cancelled"

\* The job stands right before a page's work: at a local checkpoint, or in
\* the browser service right before it collects a page for the waiting task.
BeforePageWork ==
    \/ pc \in {"loop_check", "single_check"}
    \/ pc = "remote_wait" /\ svc.pc = "collect"

\* C4: on every path, a cancellation recorded before a page's work begins
\* is seen before that work: the job's next step neither extracts nor
\* collects the page.
C4_NoPageAfterRecordedCancel ==
    [][(CancelRecorded /\ BeforePageWork)
          => (PagesWorked' = PagesWorked
              /\ pc' \notin {"loop_extract", "single_extract"})]_vars

\* C5: two check_and_deduct calls of one owner, each for N units, against a
\* balance of exactly N units: when both have reached the ledger and
\* returned, exactly one has succeeded and the other was refused (402).
C5_ExactlyOneSucceeds ==
    LET a == callers.calls[1]
        b == callers.calls[2]
    IN ( /\ a.item_count = b.item_count
         /\ TotalAvailable(callers.start) = a.item_count
         /\ {a.outcome, b.outcome} \subseteq {"ok", "402"} )
       => {a.outcome, b.outcome} = {"ok", "402"}

C5_Witness ==
    /\ callers.calls[1].item_count = callers.calls[2].item_count
    /\ TotalAvailable(callers.start) = callers.calls[1].item_count
    /\ callers.calls[1].outcome = "402" /\ callers.calls[2].outcome = "ok"
    /\ TotalAvailable(profiles) = 0

\* The owner's available units: the recurring allotment minus what was
\* used, plus the one-time credits.
AvailableUnits(p) == p.items_limit - p.items_used + p.one_time_credits

\* C6: the owner's available units never become negative.
C6_AvailableNeverNegative == AvailableUnits(profiles) >= 0

\* C7: a job whose task ends failed has charged nothing; usage is charged
\* only on the path that ends completed, for the job's item count k > 0 and
\* by exactly k; a completed job with item count 0 has charged nothing.
C7_DeductionOnlyForCompletedItems ==
    /\ hist.outcome = "failed" => (hist.deductCalls = 0 /\ hist.deducted = 0)
    /\ hist.deductCalls > 0 =>
          /\ hist.deductCalls = 1
          /\ pc \in {"db_complete", "cache_complete", "remote_db", "done"}
          /\ pc = "done" => hist.outcome = "completed"
          /\ request.user_id
          /\ task.item_count > 0
          /\ hist.deducted \in {0, task.item_count}
    /\ (hist.outcome = "completed" /\ task.item_count = 0) => hist.deductCalls = 0

C7_Witness ==
    /\ hist.outcome = "completed"
    /\ task.item_count = 2 /\ hist.deducted = 2 /\ hist.deductCalls = 1

\* The job ran undisturbed: no cancel request touched it, the completion
\* reached the store and the charge, if any, reached the ledger.
Undisturbed ==
    /\ cancel.pc = "idle" /\ ~hist.cancelDbOk /\ active_jobs.status # "cancelled"
    /\ "completed" \in hist.wrote
    /\ hist.deductCalls > 0 => hist.deducted > 0

\* Three pages, each reached by a successful navigation, each yielding
\* {"items": [x_i]}: extracted page by page locally, or collected by the
\* browser service and extracted from the combined text.
ThreePagesOfItems ==
    \/ task.yielded = << ItemsPayload(<<1>>), ItemsPayload(<<2>>), ItemsPayload(<<3>>) >>
    \/ /\ svc.all_content = <<1, 2, 3>>
       /\ svc.resp = [kind |-> "data", data |-> Some(ItemsPayload(<<1, 2, 3>>))]

\* C8: a job of an owner with pagination enabled and max_pages = 3 whose
\* three pages each yield {"items": [x_i]} ends with data {"items": [x1, x2,
\* x3]}, pages_scraped = 3, status completed and 3 units charged.
C8_ThreePageJob ==
    ( /\ pc = "done" /\ hist.outcome = "completed"
      /\ request.pagination_enabled /\ request.max_pages = 3 /\ request.user_id
      /\ ThreePagesOfItems
      /\ Undisturbed )
    => ( /\ jobs.status = "completed"
         /\ jobs.data = Some(ItemsPayload(<<1, 2, 3>>))
         /\ jobs.pages_scraped = Some(3)
         /\ hist.deducted = 3 )

StrategyRank(name) ==
    IF name = "pattern" THEN 1 ELSE IF name = "button" THEN 2 ELSE 3

ButtonFailed(a) == a.s = "button" /\ a.r \in {"no_selector", "click_failed"}

\* C9: within a pagination step of the browser service the strategies are
\* attempted in the order pattern, button, heuristic; after a failed
\* navigation to the pattern-learned URL the next one attempted is the
\* button click; the heuristic is attempted only right after a failed button
\* attempt.
C9_StrategyOrder ==
    LET log == svc.log
        n == Len(log)
    IN /\ \A a, b \in 1..n : a < b => StrategyRank(log[a].s) < StrategyRank(log[b].s)
       /\ \A a \in 1..n :
            (log[a].s = "pattern" /\ log[a].r = "nav_failed") =>
                IF a = n THEN svc.pc \in {"s2", "responded"} ELSE log[a + 1].s = "button"
       /\ \A a \in 1..n :
            log[a].s = "heuristic" => (a > 1 /\ ButtonFailed(log[a - 1]))
       /\ svc.pc = "s3" => (n >= 1 /\ ButtonFailed(log[n]))

C9_Witness ==
    /\ Len(svc.log) = 3
    /\ svc.log[1] = Attempt("pattern", "nav_failed")
    /\ svc.log[2] = Attempt("button", "click_failed")
    /\ svc.log[3].s = "heuristic"

PageBudget(r) == IF r.pagination_enabled THEN r.max_pages ELSE 1

\* C11: the pages the local loop has extracted, and the pages the browser
\* service has collected, never outnumber the job's page budget, whichever
\* strategies succeeded or failed on the way.
C11_PageBudget ==
    /\ Len(task.yielded) <= PageBudget(request)
    /\ pc \notin {"remote_wait", "remote_db", "remote_except"}
          => task.pages_scraped <= PageBudget(request)
    /\ Len(svc.all_content) <= PageBudget(request)
    /\ svc.current_page_num <= PageBudget(request)

C11_Witness ==
    /\ request.pagination_enabled /\ request.max_pages = 3
    /\ svc.all_content = <<1, 2, 3>> /\ svc.pc = "combine"
    /\ svc.exhausted = None

\* C12: the persisted status is queued from the submission's insert until
\* the background task begins (unless a cancel request changes it), turns
\* running only in the step in which the task begins, and is never running
\* again once it is completed, failed or cancelled.
C12_QueuedUntilTaskBegins ==
    [][ /\ (pc' = "queued" /\ ~hist'.cancelDbOk) => jobs'.status = "queued"
        /\ (jobs.status # "running" /\ jobs'.status = "running")
              => (pc = "queued" /\ pc' # "queued")
        /\ Terminal(jobs.status) => jobs'.status # "running" ]_vars

\* C13: a task in which an exception was raised (while the session was
\* normalised, in the in-task usage check, browser launch, navigation,
\* extraction or merging, or by the delegated call) has ended with persisted
\* status failed and the exception's text in the error field, provided the
\* store took the failure update and no cancel request changed the row.
C13_ExceptionEndsFailed ==
    ( /\ pc = "done" /\ task.error # ""
      /\ ~hist.cancelDbOk /\ "failed_lost" \notin hist.wrote )
    => ( /\ jobs.status = "failed"
         /\ jobs.error = Some(task.error) )

\* The positions of run_scrape_task's local path.
LocalPositions ==
    { "local_setup", "loop_check", "loop_extract", "loop_nav", "single_check",
      "single_extract", "finish", "db_complete", "cache_complete", "except" }

\* The delegated call has failed: the call itself, or the status it returned.
RemoteFailed ==
    task.error \in {"Remote Service Failed: call", "Remote Service Failed: status"}

\* C14: with BROWSER_SERVICE_URL set the task never enters its local path
\* and never holds a local browser, whether the delegated call succeeds or
\* fails; after a failed call the task only runs the delegated handler and
\* ends failed.
C14_NoLocalBrowserWhenDelegated ==
    env.browser_service_url =>
        /\ pc \notin LocalPositions
        /\ ~task.browser
        /\ task.yielded = <<>>
        /\ RemoteFailed =>
              /\ pc \in {"remote_except", "done"}
              /\ pc = "done" => hist.outcome = "failed"

C14_Witness ==
    /\ env.browser_service_url
    /\ task.error = "Remote Service Failed: call"
    /\ pc = "done" /\ jobs.status = "failed"

\* C15: a job whose execution passed the wall-clock ceiling was aborted: its
\* task has ended with persisted status failed and an error text that says
\* timeout (provided the store took the update and no cancel request
\* intervened), which tells it from a generic fault.
C15_CeilingAbortsJob ==
    ( /\ hist.ceiling /\ pc = "done"
      /\ ~hist.cancelDbOk /\ hist.outcome # "cancelled"
      /\ {"failed_lost"} \cap hist.wrote = {} )
    => ( /\ jobs.status = "failed"
         /\ jobs.error = Some(ReadTimedOut) )

\* What the status surface answers from a row of the store.
FromRow(row) ==
    [ code |-> 200, status |-> row.status, data |-> row.data,
      pages_scraped |-> row.pages_scraped, error |-> row.error ]

LastYielded(t) == t.yielded[Len(t.yielded)]

\* One key of a merged page, against the aggregate before (old) and after
\* (new) the merge.
KeyMerged(old, new, e) ==
    IF HasKey(old, e.k)
    THEN /\ HasKey(new, e.k)
         /\ Get(new, e.k) =
               IF e.list /\ Get(old, e.k).list
               THEN [Get(old, e.k) EXCEPT !.v = @ \o e.v]
               ELSE Get(old, e.k)
    ELSE HasKey(new, e.k) /\ Get(new, e.k) = e

\* C18: merging an extracted page into the aggregate never fails, and for
\* every key of the page: a list meeting a list under the same key is
\* appended to it, a key the aggregate lacks is added with the page's value,
\* and in every other collision the aggregate keeps its first-seen value.
C18_MergeRule ==
    [][ pc = "loop_extract" =>
          /\ task'.error # "extend"
          /\ pc' = "loop_nav" =>
                \A n \in 1..Len(LastYielded(task')) :
                    KeyMerged(task.aggregated_results, task'.aggregated_results,
                              LastYielded(task')[n]) ]_vars

\* C19: a page whose extraction returned an error payload leaves the
\* aggregate as it was (no key of the error payload enters it) and the loop
\* goes on to the next page.
C19_ErrorPageContributesNothing ==
    [][ ( /\ pc = "loop_extract" /\ pc' = "loop_nav"
          /\ LastYielded(task') = ErrorPayload )
        => ( /\ task'.aggregated_results = task.aggregated_results
             /\ ~HasKey(task'.aggregated_results, "error") ) ]_vars

\* C20: no exception of the extraction operation reaches the orchestrator:
\* a step that leaves an extraction for the task's handler does so for the
\* merge only, never with an exception raised by the extraction itself.
C20_ExtractionNeverRaises ==
    [][ (pc \in {"loop_extract", "single_extract"} /\ pc' = "except")
          => task'.error = "extend" ]_vars

\* The closer of an opener.
Closer(c) == IF c = "{" THEN "}" ELSE "]"

\* Scanning a text left to right: the openers still unmatched (innermost
\* last), and whether every closer met matched the innermost opener.
RECURSIVE Scan(_, _)
Scan(s, stack) ==
    IF s = <<>> THEN [ok |-> TRUE, stack |-> stack]
    ELSE IF Head(s) \in {"{", "["} THEN Scan(Tail(s), Append(stack, Head(s)))
    ELSE IF Head(s) \in {"}", "]"}
         THEN IF stack # <<>> /\ Closer(stack[Len(stack)]) = Head(s)
              THEN Scan(Tail(s), SubSeq(stack, 1, Len(stack) - 1))
              ELSE [ok |-> FALSE, stack |-> stack]
    ELSE Scan(Tail(s), stack)

WellNested(s) == Scan(s, <<>>).ok /\ Scan(s, <<>>).stack = <<>>

\* The closers of the unmatched openers, innermost first.
ClosersFor(stack) == [i \in 1..Len(stack) |-> Closer(stack[Len(stack) + 1 - i])]

\* The text ends in } or ].
Complete(t) == EndsWith(t, "}") \/ EndsWith(t, "]")

\* C21: for a truncated prefix of a well-nested text (it does not end in }
\* or ], and every closer in it matches), the repair appends the closers
\* of the unmatched openers in reverse order of opening, so that the result
\* is well nested: {x[x becomes {x[x]}.
C21_RepairClosesInReverseOrder ==
    LET t == Strip(pure.text) IN
    ( /\ pure.stage # "in"
      /\ ~Complete(t) /\ Scan(t, <<>>).ok )
    => ( /\ pure.once = t \o ClosersFor(Scan(t, <<>>).stack)
         /\ WellNested(pure.once) )

\* C22 as stated: the repair leaves every text that ends in } or ] as it
\* is, and repairing twice gives what repairing once gives.
C22_NoOpOnCompleteText ==
    /\ (pure.stage # "in" /\ Complete(pure.text)) => pure.once = pure.text
    /\ pure.stage = "twice" => pure.twice = pure.once

\* C22 amended: to a text that ends in } or ] once the surrounding blank
\* space is stripped, the repair appends nothing and returns the stripped
\* text; repairing twice gives what repairing once gives.
C22_AppendsNothingToCompleteText ==
    /\ (pure.stage # "in" /\ Complete(Strip(pure.text)))
          => pure.once = Strip(pure.text)
    /\ pure.stage = "twice" => pure.twice = pure.once

C22_Witness ==
    /\ pure.stage = "twice"
    /\ pure.text = <<"{", "{", "x", "}">>
    /\ pure.twice = pure.text

\* C23: normalising what a normalisation has left gives the same session
\* again (and, where the first one raised, raises again at the same cookie).
C23_NormalisationIdempotent ==
    pure.stage = "twice" => pure.twice = pure.once

C23_Witness ==
    /\ pure.stage = "twice"
    /\ pure.session = [depth |-> 0, cookies |-> <<"no_restriction", "LAX">>]
    /\ pure.twice.session = [depth |-> 1, cookies |-> <<"None", "Lax">>]

\* The sameSite value the normalisation is to leave for value v.
CanonicalSameSite(v) ==
    IF v \in {"no_restriction", "unspecified", "none", "NONE", "None"} THEN "None"
    ELSE IF v \in {"lax", "LAX", "Lax"} THEN "Lax"
    ELSE IF v \in {"strict", "Strict"} THEN "Strict"
    ELSE "absent"

\* C24: the normalisation of a non-empty session payload completes and
\* leaves an object {cookies: [...]} in which every cookie has no sameSite
\* or exactly Strict, Lax or None: no_restriction and unspecified have
\* become None, case variants of lax, strict and none the canonical
\* casing, and every other value is dropped.
C24_SameSiteCanonical ==
    (pure.stage # "in" /\ pure.session.cookies # <<>>) =>
        /\ ~pure.once.raised
        /\ pure.once.session.depth = 1
        /\ Len(pure.once.session.cookies) = Len(pure.session.cookies)
        /\ \A n \in 1..Len(pure.session.cookies) :
              /\ pure.once.session.cookies[n] = CanonicalSameSite(pure.session.cookies[n])
              /\ pure.once.session.cookies[n] \in {"absent", "Strict", "Lax", "None"}

\* No work has been done for the job: the task has not begun, nothing has
\* been delegated, no cache entry exists.
NoWorkYet == task = TaskInit /\ svc = SvcInit /\ ~active_jobs.present

\* C25: the submission has created the job's record when it schedules the
\* task and returns the job id, which it does before any work for the job
\* has begun; when the record cannot be created the caller gets an error,
\* no task is scheduled and no record exists.
C25_RecordBeforeTask ==
    /\ pc \notin {"idle", "rejected"} => (jobs.exists /\ hist.submit = "queued")
    /\ pc = "queued" => NoWorkYet
    /\ hist.submit = "500" => pc = "rejected"
    /\ pc = "rejected" => (~jobs.exists /\ NoWorkYet)

C25_Witness ==
    /\ pc = "queued" /\ jobs.exists /\ jobs.status = "running"
    /\ request.pagination_enabled /\ NoWorkYet

CeilingHeldForJob ==
    /\ (pc \notin {"idle", "direct"} /\ request.pagination_enabled
          /\ request.max_pages > MAX_PAGES) =>
          /\ pc = "rejected" /\ hist.submit = "400"
          /\ ~jobs.exists /\ NoWorkYet
    /\ pc \notin {"idle", "rejected", "direct"} =>
          /\ PageBudget(request) <= MAX_PAGES
          /\ Len(task.yielded) <= MAX_PAGES
          /\ Len(svc.all_content) <= MAX_PAGES

\* C26, as stated: the ceiling holds for every job, and the browser service
\* never scrapes more than ten pages for one request, whoever sent it.
C26_NoMoreThanTenPages ==
    /\ CeilingHeldForJob
    /\ Len(svc.all_content) <= MAX_PAGES

\* C26, amended: the ceiling holds for every job, the browser service
\* included when the request it serves is a job's; a request posted to the
\* service directly is outside the statement.
C26_NoJobAboveTenPages == CeilingHeldForJob

C26_Witness ==
    /\ pc = "rejected" /\ hist.submit = "400"
    /\ request.pagination_enabled /\ request.max_pages = MAX_PAGES + 1
    /\ ~jobs.exists

\* Pages the job has processed: extracted by the local task, or navigated to
\* and collected by the browser service.
PagesProcessed == Len(task.yielded) + Len(svc.all_content)

\* C27: a job's row with status completed carries, as pages_scraped, the
\* number of pages the job processed, whether the task worked locally or
\* delegated the work.
C27_PagesScrapedIsPagesProcessed ==
    (jobs.exists /\ jobs.status = "completed") =>
        jobs.pages_scraped = Some(PagesProcessed)

\* C29: an error of the first page load does not fail the job: the local
\* task does not end in its handler because of it, and the browser service,
\* having caught it, stands before the collection of the first page with its
\* browser open.
C29_FirstNavigationErrorTolerated ==
    /\ task.error # "goto"
    /\ svc.nav_error => (svc.pc = "collect" /\ svc.i = 0 /\ svc.browser /\ ~svc.fault)

\* The count the aggregate calls for: its number of elements if it is a
\* list, the length of its first list-valued field if it is a dict that has
\* one, and 0 otherwise.
ListFields(d) == { n \in 1..Len(d) : d[n].list }
CountOf(a) ==
    IF a = None THEN 0
    ELSE LET d == a[1] IN
         IF ListFields(d) = {} THEN 0
         ELSE Len(d[CHOOSE n \in ListFields(d) : \A o \in ListFields(d) : n <= o].v)

\* C30: the count of the local path and the count of the delegated path
\* are both the count the aggregate calls for, and so equal each other.
C30_SameCountOnBothPaths ==
    /\ pure.stage # "in" => pure.local = CountOf(pure.agg)
    /\ pure.stage = "both" => (pure.remote = CountOf(pure.agg) /\ pure.remote = pure.local)

\* The button search has run with the credentials set and no exception.
ButtonSearched ==
    /\ pure.stage = "done" /\ pure.fn = "button"
    /\ pure.hasKey /\ pure.callOk

\* The answer is the index of an element that stood in the prompt.
AnswersPresented ==
    /\ pure.answer.text = "digits"
    /\ pure.answer.int < Len(Presented(Candidates(pure.n, pure.shape)))

\* C31: the selector search gives no selector when the model answers NONE,
\* or something that is no index of an element presented to it; a selector
\* it gives was built from the presented element the answer names.
C31_OnlyPresentedCandidates ==
    /\ (pure.stage = "done" /\ pure.fn = "button") =>
          /\ ~AnswersPresented => pure.selector = None
          /\ pure.selector # None =>
                (AnswersPresented /\ pure.selector[1].el = pure.answer.int)
    /\ (pure.stage = "done" /\ pure.fn = "element") =>
          (Strip(pure.text) = <<"NONE">> => pure.css = None)

\* C32: for the element the answer chose, the selector is built from the id
\* if the element has one, else from the first class token if it has a
\* class, else from the href, and is null if it has none of the three.
C32_SelectorPreference ==
    (ButtonSearched /\ pure.answer.text = "digits" /\ pure.answer.int < pure.n) =>
        LET e == Candidates(pure.n, pure.shape)[pure.answer.int + 1]
            sel == pure.selector
        IN IF e.id # None THEN sel # None /\ sel[1].by = "id"
           ELSE IF e.class # <<>>
                THEN sel # None /\ sel[1].by = "class" /\ sel[1].v = e.class[1]
           ELSE IF e.href # None THEN sel # None /\ sel[1].by = "href"
           ELSE sel = None

C32_Witness ==
    /\ ButtonSearched /\ pure.answer.text = "digits" /\ pure.answer.int < pure.n
    /\ ~pure.shape.id /\ pure.shape.class = <<"btn", "next">> /\ pure.shape.href
    /\ pure.selector = Some(Selector("class", pure.answer.int, "btn"))

\* The places of a URL's /page/<n>/ segments, and of its page= parameters.
PageSegments(u) ==
    { i \in 2..Len(u.segs) : u.segs[i - 1] = "page" /\ IsDigits(u.segs[i]) }
PageParams(q) == { i \in 1..Len(q) : q[i].k = "page" }

\* C33: the guessed URL carries the next page number in its /page/<n>/
\* segment if the current URL has one; else, if the current URL has a query
\* string, it carries exactly one page= parameter, with the next page number,
\* beside the other parameters; else it is the current URL with /page/<n>/
\* appended.
C33_HeuristicRule ==
    pure.stage # "in" =>
        LET u == pure.url
            r == pure.next_url
            t == Decimal[pure.next_page_num]
        IN IF PageSegments(u) # {}
           THEN /\ r.query = u.query
                /\ r.segs = [i \in 1..Len(u.segs) |->
                               IF i \in PageSegments(u) THEN t ELSE u.segs[i]]
           ELSE IF u.query # None
           THEN /\ r.segs = u.segs
                /\ r.query # None
                /\ Cardinality(PageParams(r.query[1])) = 1
                /\ \A i \in PageParams(r.query[1]) : r.query[1][i].v = t
                /\ Without(r.query[1], [k |-> "page", v |-> t])
                     = SelectSeq(u.query[1], LAMBDA p : p.k # "page")
           ELSE /\ r.query = None
                /\ r.segs = u.segs \o <<"page", t>>

\* C39: a step counted as a navigation of the URL-pattern heuristic went to
\* a URL other than the current one.
C39_HeuristicLeavesCurrentUrl ==
    pure.stage = "counted" => pure.next_url # pure.url

\* C34: a job whose cancellation was requested, and recorded in the store,
\* before its task began has, when the task has ended, the persisted status
\* cancelled, no persisted data and no usage deducted.
C34_EarlyCancelNotLost ==
    (hist.early = "yes" /\ pc = "done") =>
        /\ jobs.status = "cancelled"
        /\ jobs.data = None
        /\ hist.deducted = 0

\* The job's task has run to its end and the job has a record.
TaskEnded == pc = "done" /\ jobs.exists

\* C35: once the task of a job with a record has run to its end, on
\* whichever path, the persisted status is completed, failed or cancelled.
C35_TaskEndLeavesTerminalStatus == TaskEnded => Terminal(jobs.status)

\* C36: once the task has ended, the cache entry of the job, if there is
\* one, carries the status of the job's record; it does not say running
\* where the record says completed or failed.
C36_CacheAgreesWithStore ==
    (TaskEnded /\ active_jobs.present) => active_jobs.status = jobs.status

\* C37: a job calls for a deduction at most once, and only on the path that
\* writes status completed; a job whose task has ended with the persisted
\* status cancelled or failed has deducted nothing.
C37_DeductionOnceAndOnlyCompleted ==
    /\ hist.deductCalls <= 1
    /\ hist.deductCalls > 0 =>
          /\ pc \in {"db_complete", "cache_complete", "remote_db", "done"}
          /\ hist.outcome \in {"none", "completed"}
    /\ (TaskEnded /\ jobs.status \in {"cancelled", "failed"}) =>
          (hist.deductCalls = 0 /\ hist.deducted = 0)

\* An attempt that navigated.
Succeeded(a) == a.r \in {"nav_ok", "click_ok"}

\* C38: in the browser service's loop, where i next-page navigations have
\* succeeded so far, i + 1 pages have been collected once the current page
\* is in, the tracked page number is its starting value 1 plus i, and within
\* a step a strategy that navigated is the last one attempted.
C38_LoopCounts ==
    /\ svc.pc \in {"s1", "s2", "s3", "combine"} => Len(svc.all_content) = 1 + svc.i
    /\ svc.pc = "collect" => Len(svc.all_content) = svc.i
    /\ svc.pc \in {"collect", "s1", "s2", "s3", "combine"} =>
          svc.current_page_num = 1 + svc.i
    /\ \A a \in 1..Len(svc.log) :
          Succeeded(svc.log[a]) => (a = Len(svc.log) /\ svc.pc \notin {"s1", "s2", "s3"})
    /\ (svc.pc = "collect" /\ svc.i > 0) =>
          (svc.log # <<>> /\ Succeeded(svc.log[Len(svc.log)]))

C38_Witness ==
    /\ svc.pc = "combine" /\ svc.i = 2
    /\ Len(svc.all_content) = 3 /\ svc.current_page_num = 3

====
